---- MODULE Spec2Model ----
(***************************************************************************)
(* A model of github.com/twopow/glog: the GCP Cloud Logging slog handler   *)
(* (GCPHandler), the process-wide extra fields, the package-level logging  *)
(* functions and the call-site resolver (outsideCaller).                   *)
(***************************************************************************)
EXTENDS Integers, Sequences, FiniteSets, TLC

VARIABLES
    handlers,           \* the GCPHandler objects allocated so far, by address 1..Len
    arrays,             \* the backing arrays of the handlers' attrs slices, by address
    lineage,            \* history: per handler, the lists its chain of WithAttrs calls added
    globalExtraFields,  \* var globalExtraFields (a Go map: a function on the keys it holds)
    merged,             \* history: the maps passed to MergeGlobalExtraFields, in call order
    logger,             \* var logger: the address of the default logger's handler
    sourceLevels,       \* var sourceLevels
    sinks,              \* per io.Writer, the chunks written to it
    ev,                 \* history: the last operation, its inputs, its calls and its result
    pc,                 \* per goroutine, its position inside Handle / MergeGlobalExtraFields
    loc,                \* per goroutine, the locals of the call it is in
    crashed,            \* the runtime aborted the process ("concurrent map ..." fatal error)
    stack,              \* the call stack outsideCaller is run on
    fields              \* the map addAttrToFields is run on

vars == <<handlers, arrays, lineage, globalExtraFields, merged, logger, sourceLevels,
          sinks, ev, pc, loc, crashed, stack, fields>>

-----------------------------------------------------------------------------
(* Bounds *)

MaxHandlers == 4        \* handlers allocated in one run
MaxLoggers == 2         \* default loggers made in one run
MaxLines == 1           \* Handle calls per sink in one run
MaxMerges == 2          \* MergeGlobalExtraFields calls in one run
MaxLayers == 17         \* facade frames between outsideCaller and the application
MaxMs == 2              \* durations range over -MaxMs..MaxMs milliseconds
MaxCalls == 2           \* calls per goroutine in the concurrent runs

Keys == {1, 2}          \* attribute / extra-field keys, in their sorted (byte) order
Stdout == "os.Stdout"   \* the writer NewLogger hands to NewGCPHandler
Buffer == "buffer"      \* another io.Writer handed to NewGCPHandler
Sinks == {Stdout, Buffer}

-----------------------------------------------------------------------------
(* log/slog levels and values *)

LevelDebug == -4
LevelInfo == 0
LevelWarn == 4
LevelError == 8

\* A slog.Value: its Kind, the dynamic type of what a KindAny value holds, and
\* its payload (a number or a text).
Int64Value(n) == [kind |-> "Int64", dyn |-> "", num |-> n, str |-> ""]
StringValue(s) == [kind |-> "String", dyn |-> "", num |-> 0, str |-> s]
DurationValue(ns) == [kind |-> "Duration", dyn |-> "", num |-> ns, str |-> ""]
ErrorValue(msg) == [kind |-> "Any", dyn |-> "error", num |-> 0, str |-> msg]
ChanValue == [kind |-> "Any", dyn |-> "chan", num |-> 0, str |-> ""]

Attr(k, v) == [Key |-> k, Value |-> v]

\* Go's integer division truncates toward zero.
Quot(a, b) == IF a >= 0 THEN a \div b ELSE -((-a) \div b)

NanosPerMilli == 1000000

MillisecondsFloor(d) == d \div NanosPerMilli

\* time.Duration.Milliseconds: int64(d) / 1e6
Milliseconds(d) == Quot(d, NanosPerMilli)

\* slog.Value.Any(): the Go value a slog.Value holds.
AnyOf(v) ==
    CASE v.kind = "Int64" -> [type |-> "int64", num |-> v.num, str |-> ""]
      [] v.kind = "String" -> [type |-> "string", num |-> 0, str |-> v.str]
      [] v.kind = "Duration" -> [type |-> "time.Duration", num |-> v.num, str |-> ""]
      [] OTHER -> [type |-> v.dyn, num |-> v.num, str |-> v.str]

Put(m, k, x) == [j \in (DOMAIN m) \cup {k} |-> IF j = k THEN x ELSE m[j]]

EmptyMap == [j \in {} |-> 0]

addAttrToFields(m, attr) ==
    LET value == IF attr.Value.kind = "Any"
                 THEN IF attr.Value.dyn = "error"
                      THEN StringValue(attr.Value.str)
                      ELSE attr.Value
                 ELSE IF attr.Value.kind = "Duration"
                      THEN Int64Value(Milliseconds(attr.Value.num))
                      ELSE attr.Value
    IN  Put(m, attr.Key, AnyOf(value))

levelToGCPSeverity(level) ==
    IF level >= LevelError THEN "ERROR"
    ELSE IF level >= LevelWarn THEN "WARNING"
    ELSE IF level >= LevelInfo THEN "INFO"
    ELSE "DEBUG"

-----------------------------------------------------------------------------
(* encoding/json, as far as gcpLogEntry uses it *)

\* json.Marshal of one Go value: a number, a string, or an UnsupportedTypeError.
\* An error value left as it is has no exported fields: it encodes as {}.
MarshalValue(x) ==
    CASE x.type = "int64" -> [err |-> FALSE, json |-> [t |-> "number", num |-> x.num, str |-> ""]]
      [] x.type = "time.Duration" -> [err |-> FALSE, json |-> [t |-> "number", num |-> x.num, str |-> ""]]
      [] x.type = "string" -> [err |-> FALSE, json |-> [t |-> "string", num |-> 0, str |-> x.str]]
      [] x.type = "error" -> [err |-> FALSE, json |-> [t |-> "object", num |-> 0, str |-> ""]]
      [] OTHER -> [err |-> TRUE, json |-> [t |-> "null", num |-> 0, str |-> ""]]

Min(S) == CHOOSE x \in S : \A y \in S : x <= y

RECURSIVE SortedKeys(_)
SortedKeys(S) == IF S = {} THEN <<>> ELSE <<Min(S)>> \o SortedKeys(S \ {Min(S)})

\* json.Marshal of a map[string]interface{}: an object with the keys sorted.
MarshalMap(m) ==
    LET ks == SortedKeys(DOMAIN m)
    IN  [err |-> \E k \in DOMAIN m : MarshalValue(m[k]).err,
         obj |-> [i \in 1..Len(ks) |-> [key |-> ks[i], val |-> MarshalValue(m[ks[i]]).json]]]

SourceKey == "logging.googleapis.com/sourceLocation"

\* json.Marshal(entry): the struct's fields in declaration order, the
\* source location left out when the pointer is nil (omitempty).
Marshal(entry) ==
    LET c == MarshalMap(entry.Context)
        e == MarshalMap(entry.Extra)
    IN  [err |-> c.err \/ e.err,
         doc |-> [keys |-> <<"severity", "message", "timestamp">>
                           \o (IF entry.SourceLocation.nil THEN <<>> ELSE <<SourceKey>>)
                           \o <<"context", "extra">>,
                  severity |-> entry.Severity,
                  message |-> entry.Message,
                  timestamp |-> entry.Timestamp,
                  sourceLocation |-> entry.SourceLocation,
                  context |-> c.obj,
                  extra |-> e.obj]]

-----------------------------------------------------------------------------
(* GCPHandler *)

\* The elements a slice [arr, len] shows of its backing array.
SliceElems(s) == SubSeq(arrays[s.arr], 1, s.len)

\* What a handler is to its users: its sink, threshold, preset attributes and group.
HandlerView(h) ==
    [w |-> handlers[h].w, level |-> handlers[h].level,
     attrs |-> SliceElems(handlers[h].attrs), group |-> handlers[h].group]

Live == 1..Len(handlers)

\* NewGCPHandler: a handler with an empty, freshly made attrs slice.
Alloc(w, level) ==
    /\ handlers' = Append(handlers, [w |-> w, level |-> level,
                                     attrs |-> [arr |-> Len(arrays) + 1, len |-> 0],
                                     group |-> ""])
    /\ arrays' = Append(arrays, <<>>)
    /\ lineage' = Append(lineage, <<>>)

NewGCPHandler(w, level) ==
    /\ Len(handlers) < MaxHandlers
    /\ Alloc(w, level)
    /\ ev' = [op |-> "NewGCPHandler", h |-> Len(handlers) + 1]
    /\ UNCHANGED <<globalExtraFields, merged, logger, sourceLevels, sinks,
                   pc, loc, crashed, stack, fields>>

EnabledAbove(h, level) == level > handlers[h].level

\* return level >= h.level
Enabled(h, level) == level >= handlers[h].level

\* newAttrs := make(len(h.attrs)+len(attrs)); copy; copy
NewAttrs(old, attrs) == old \o attrs

WithAttrsInPlace(h, attrs) ==
    /\ Len(handlers) < MaxHandlers
    /\ arrays' = [arrays EXCEPT ![handlers[h].attrs.arr] = SliceElems(handlers[h].attrs) \o attrs]
    /\ handlers' = Append([handlers EXCEPT ![h].attrs.len = @ + Len(attrs)],
                          [handlers[h] EXCEPT !.attrs.len = @ + Len(attrs)])
    /\ lineage' = Append(lineage, Append(lineage[h], attrs))
    /\ ev' = [op |-> "WithAttrs", h |-> h, attrs |-> attrs, new |-> Len(handlers) + 1]
    /\ UNCHANGED <<globalExtraFields, merged, logger, sourceLevels, sinks,
                   pc, loc, crashed, stack, fields>>

WithAttrs(h, attrs) ==
    /\ Len(handlers) < MaxHandlers
    /\ arrays' = Append(arrays, NewAttrs(SliceElems(handlers[h].attrs), attrs))
    /\ handlers' = Append(handlers,
                          [w |-> handlers[h].w, level |-> handlers[h].level,
                           attrs |-> [arr |-> Len(arrays) + 1,
                                      len |-> handlers[h].attrs.len + Len(attrs)],
                           group |-> handlers[h].group])
    /\ lineage' = Append(lineage, Append(lineage[h], attrs))
    /\ ev' = [op |-> "WithAttrs", h |-> h, attrs |-> attrs, new |-> Len(handlers) + 1]
    /\ UNCHANGED <<globalExtraFields, merged, logger, sourceLevels, sinks,
                   pc, loc, crashed, stack, fields>>

\* The new handler shares the receiver's attrs slice (same backing array).
WithGroup(h, name) ==
    /\ Len(handlers) < MaxHandlers
    /\ handlers' = Append(handlers,
                          [w |-> handlers[h].w, level |-> handlers[h].level,
                           attrs |-> handlers[h].attrs, group |-> name])
    /\ lineage' = Append(lineage, lineage[h])
    /\ ev' = [op |-> "WithGroup", h |-> h, name |-> name, new |-> Len(handlers) + 1]
    /\ UNCHANGED <<arrays, globalExtraFields, merged, logger, sourceLevels, sinks,
                   pc, loc, crashed, stack, fields>>

shouldLogSourceByRange(level) == level <= LevelDebug \/ level >= LevelError

\* r.Level == slog.LevelDebug || r.Level == slog.LevelError
shouldLogSource(level) == level = LevelDebug \/ level = LevelError

NilSource == [nil |-> TRUE, pc |-> 0]

RECURSIVE AddAll(_, _)
AddAll(m, as) == IF as = <<>> THEN m ELSE AddAll(addAttrToFields(m, Head(as)), Tail(as))

ContextRecordFirst(preset, recAttrs) == AddAll(AddAll(EmptyMap, recAttrs), preset)

\* The context map: the preset attributes, then the record's.
Context(preset, recAttrs) == AddAll(AddAll(EmptyMap, preset), recAttrs)

\* r.Time.UTC().Format(time.RFC3339Nano)
FormatTime(t) == <<"RFC3339Nano", "UTC", t>>

\* The gcpLogEntry Handle builds for record r; extra is the map it serializes.
Entry(h, r, extra) ==
    [Severity |-> levelToGCPSeverity(r.Level),
     Message |-> r.Message,
     Timestamp |-> FormatTime(r.Time),
     SourceLocation |-> IF r.PC # 0 /\ shouldLogSource(r.Level)
                        THEN [nil |-> FALSE, pc |-> r.PC]
                        ELSE NilSource,
     Context |-> Context(SliceElems(handlers[h].attrs), r.Attrs),
     Extra |-> extra]

Newline == [tok |-> "newline"]

\* b = append(json, '\n')
Line(doc) == <<[tok |-> "json", doc |-> doc], Newline>>

\* The calls Handle makes after building the entry, given Marshal's result.
HandleCalls(m) == IF m.err THEN <<"Marshal">> ELSE <<"Marshal", "Write">>

HandleResultIgnoringWrite(h, r, n) ==
    LET m == Marshal(Entry(h, r, globalExtraFields))
        b == Line(m.doc)
        w == handlers[h].w
    IN  [err |-> m.err,
         calls |-> HandleCalls(m),
         sinks |-> IF m.err THEN sinks
                   ELSE [sinks EXCEPT ![w] = @ \o SubSeq(b, 1, n)]]

\* Handle as one step. n is how many of the line's chunks the sink accepts:
\* all of them, or fewer, and then Write returns an error.
HandleResult(h, r, n) ==
    LET m == Marshal(Entry(h, r, globalExtraFields))
        b == Line(m.doc)
        w == handlers[h].w
    IN  [err |-> m.err \/ n < Len(b),
         calls |-> HandleCalls(m),
         sinks |-> IF m.err THEN sinks
                   ELSE [sinks EXCEPT ![w] = @ \o SubSeq(b, 1, n)]]

Written == Len(sinks[Stdout]) + Len(sinks[Buffer])

Handle(h, r, n) ==
    LET res == HandleResult(h, r, n)
    IN  /\ Written < 2 * MaxLines
        /\ sinks' = res.sinks
        /\ ev' = [op |-> "Handle", h |-> h, r |-> r, n |-> n, err |-> res.err,
                  calls |-> res.calls, before |-> sinks]
        /\ UNCHANGED <<handlers, arrays, lineage, globalExtraFields, merged, logger,
                       sourceLevels, pc, loc, crashed, stack, fields>>

-----------------------------------------------------------------------------
(* Process-wide extra fields *)

MergeReplacing(store, extraFields) == extraFields

\* for key, value := range extraFields { globalExtraFields[key] = value }
MergeInto(store, extraFields) ==
    [k \in (DOMAIN store) \cup (DOMAIN extraFields) |->
        IF k \in DOMAIN extraFields THEN extraFields[k] ELSE store[k]]

MergeGlobalExtraFields(extraFields) ==
    /\ Len(merged) < MaxMerges
    /\ globalExtraFields' = MergeInto(globalExtraFields, extraFields)
    /\ merged' = Append(merged, extraFields)
    /\ ev' = [op |-> "MergeGlobalExtraFields", extraFields |-> extraFields]
    /\ UNCHANGED <<handlers, arrays, lineage, logger, sourceLevels, sinks,
                   pc, loc, crashed, stack, fields>>

-----------------------------------------------------------------------------
(* The call-site resolver *)

pkgPrefix == "github.com/twopow/glog."

depth == 16

\* A function name is the sequence of its path segments; strings.Contains
\* finds the prefix at any segment.
Contains(function, prefix) == \E i \in 1..Len(function) : function[i] = prefix

HasPrefix(function, prefix) == Len(function) >= 1 /\ function[1] = prefix

\* The runtime.Frame that frames.Next() returns once the frames are used up.
ZeroFrame == [PC |-> 0, Function |-> <<>>]

\* runtime.Callers(skip, pcs): the stack from its skip-th frame on (frame 0 is
\* Callers itself), as far as pcs has room.
Callers(skip, stk, room) ==
    SubSeq(stk, skip + 1, IF Len(stk) < skip + room THEN Len(stk) ELSE skip + room)

RECURSIVE WalkBreakFirst(_, _)
WalkBreakFirst(frames, i) ==
    LET f == IF i <= Len(frames) THEN frames[i] ELSE ZeroFrame
        more == i < Len(frames)
    IN  IF ~more THEN 0
        ELSE IF ~Contains(f.Function, pkgPrefix) THEN f.PC
        ELSE WalkBreakFirst(frames, i + 1)

\* The loop over frames.Next(), from the i-th captured frame on.
RECURSIVE Walk(_, _)
Walk(frames, i) ==
    LET f == IF i <= Len(frames) THEN frames[i] ELSE ZeroFrame
        more == i < Len(frames)
    IN  IF ~Contains(f.Function, pkgPrefix) THEN f.PC
        ELSE IF ~more THEN 0
        ELSE Walk(frames, i + 1)

outsideCaller(stk) == Walk(Callers(2, stk, depth), 1)

\* Stacks, innermost frame first; a frame's PC is its place in the stack.
Number(fns) == [i \in 1..Len(fns) |-> [PC |-> i, Function |-> fns[i]]]

Facade(name) == <<pkgPrefix, name>>
Vendored(name) == <<"example.com/app/vendor/", pkgPrefix, name>>
App(name) == <<"main.", name>>
Goexit == <<"runtime.", "goexit">>

\* The stack inside outsideCaller when the application called the package
\* function fn, which calls log (or logAttrs).
CallStack(low, fn, app) ==
    Number(<<<<"runtime.", "Callers">>, Facade("outsideCaller"), Facade(low), Facade(fn)>>
           \o app \o <<Goexit>>)

-----------------------------------------------------------------------------
(* The package-level functions *)

\* slog.NewRecord(time.Now(), level, msg, pc), then r.Add / r.AddAttrs
NewRecord(t, level, msg, p, attrs) ==
    [Time |-> t, Level |-> level, Message |-> msg, PC |-> p, Attrs |-> attrs]

ParseLevel(level) ==
    CASE level = "debug" -> LevelDebug
      [] level = "info" -> LevelInfo
      [] level = "warn" -> LevelWarn
      [] level = "error" -> LevelError
      [] OTHER -> LevelDebug

\* NewGCPHandler takes a writer and a level: sourceLevels, which NewLogger
\* also hands it, has no parameter to land in.
NewLogger(level) ==
    /\ Len(handlers) < MaxLoggers
    /\ Alloc(Stdout, ParseLevel(level))
    /\ logger' = Len(handlers) + 1
    /\ ev' = [op |-> "NewLogger", level |-> level, h |-> Len(handlers) + 1]
    /\ UNCHANGED <<globalExtraFields, merged, sourceLevels, sinks,
                   pc, loc, crashed, stack, fields>>

SetSourceLevels(levels) ==
    /\ sourceLevels' = levels
    /\ ev' = [op |-> "SetSourceLevels", levels |-> levels]
    /\ UNCHANGED <<handlers, arrays, lineage, globalExtraFields, merged, logger, sinks,
                   pc, loc, crashed, stack, fields>>

\* log and logAttrs: the fast path, then the resolver, the record and Handle.
\* name is the exported function called, low the one of the two it goes through.
logBody(name, low, level, attrs, app, n) ==
    IF ~Enabled(logger, level)
    THEN /\ ev' = [op |-> name, h |-> logger, level |-> level, err |-> FALSE,
                   calls |-> <<"Enabled">>, before |-> sinks]
         /\ UNCHANGED <<handlers, arrays, lineage, globalExtraFields, merged, logger,
                        sourceLevels, sinks, pc, loc, crashed, stack, fields>>
    ELSE LET stk == CallStack(low, name, app)
             r == NewRecord(0, level, "msg", outsideCaller(stk), attrs)
             res == HandleResult(logger, r, n)
         IN  /\ Written < 2 * MaxLines
             /\ sinks' = res.sinks
             /\ ev' = [op |-> name, h |-> logger, level |-> level, r |-> r, n |-> n,
                       err |-> res.err,
                       calls |-> <<"Enabled", "outsideCaller", "Handle">> \o res.calls,
                       before |-> sinks]
             /\ UNCHANGED <<handlers, arrays, lineage, globalExtraFields, merged, logger,
                            sourceLevels, pc, loc, crashed, stack, fields>>

log(name, level, attrs, app, n) == logBody(name, "log", level, attrs, app, n)

logAttrs(name, level, attrs, app, n) == logBody(name, "logAttrs", level, attrs, app, n)

Debug(ctx, attrs, app, n) ==
    log(IF ctx THEN "DebugContext" ELSE "Debug", LevelDebug, attrs, app, n)

Info(ctx, attrs, app, n) ==
    log(IF ctx THEN "InfoContext" ELSE "Info", LevelInfo, attrs, app, n)

Warn(ctx, attrs, app, n) ==
    log(IF ctx THEN "WarnContext" ELSE "Warn", LevelWarn, attrs, app, n)

Error(ctx, attrs, app, n) ==
    log(IF ctx THEN "ErrorContext" ELSE "Error", LevelError, attrs, app, n)

Log(level, attrs, app, n) == log("Log", level, attrs, app, n)

LogAttrs(level, attrs, app, n) == logAttrs("LogAttrs", level, attrs, app, n)

PackageFunctions ==
    {"Debug", "DebugContext", "Info", "InfoContext", "Warn", "WarnContext",
     "Error", "ErrorContext", "Log", "LogAttrs"}

-----------------------------------------------------------------------------
(* Initial states *)

Procs == {1, 2}

\* The heap and the globals once NewLogger(level) has returned.
InitState(level) ==
    /\ handlers = <<[w |-> Stdout, level |-> ParseLevel(level),
                     attrs |-> [arr |-> 1, len |-> 0], group |-> ""]>>
    /\ arrays = << <<>> >>
    /\ lineage = << <<>> >>
    /\ globalExtraFields = EmptyMap
    /\ merged = <<>>
    /\ logger = 1
    /\ sourceLevels = <<LevelDebug>>
    /\ sinks = [w \in Sinks |-> <<>>]
    /\ crashed = FALSE

\* The state once NewLogger(level) has returned.
InitLogger(level) ==
    /\ InitState(level)
    /\ ev = [op |-> "NewLogger", level |-> level, h |-> 1]
    /\ pc = [p \in Procs |-> "idle"]
    /\ loc = [p \in Procs |-> [calls |-> 0]]
    /\ stack = <<>>
    /\ fields = EmptyMap

-----------------------------------------------------------------------------
(* The package-level functions and Handle: levels, thresholds, call sites *)

Range(f) == {f[i] : i \in DOMAIN f}

Count(x, seq) == Cardinality({i \in 1..Len(seq) : seq[i] = x})

LevelNames == {"info", "error", "verbose"}
CustomLevels == {LevelInfo + 2, LevelError + 4}
SourceLevelChoices == {<<LevelDebug, LevelError>>, <<>>}
AppStacks == {<<App("main")>>, <<Vendored("Helper"), App("run")>>}
FacadeAttrs == {<<Attr(1, Int64Value(7))>>}
DirectRecords ==
    {NewRecord(0, l, "direct", p, <<>>) :
        l \in {LevelDebug, LevelInfo, LevelError, LevelError + 4}, p \in {0, 9}}

Next ==
    \/ \E level \in LevelNames : NewLogger(level)
    \/ \E levels \in SourceLevelChoices : SetSourceLevels(levels)
    \/ \E ctx \in BOOLEAN, as \in FacadeAttrs, app \in AppStacks : Debug(ctx, as, app, 2)
    \/ \E ctx \in BOOLEAN, as \in FacadeAttrs, app \in AppStacks : Info(ctx, as, app, 2)
    \/ \E ctx \in BOOLEAN, as \in FacadeAttrs, app \in AppStacks : Warn(ctx, as, app, 2)
    \/ \E ctx \in BOOLEAN, as \in FacadeAttrs, app \in AppStacks : Error(ctx, as, app, 2)
    \/ \E l \in CustomLevels, as \in FacadeAttrs, app \in AppStacks : Log(l, as, app, 2)
    \/ \E l \in CustomLevels, as \in FacadeAttrs, app \in AppStacks : LogAttrs(l, as, app, 2)
    \/ \E h \in Live, r \in DirectRecords : Handle(h, r, 2)

Init == \E level \in LevelNames : InitLogger(level)

Spec == Init /\ [][Next]_vars

\* The last operation wrote a complete line.
Emitted ==
    /\ ev.op \in PackageFunctions \cup {"Handle"}
    /\ "Write" \in Range(ev.calls)
    /\ ~ev.err

\* The document of the last line in the sink the last operation wrote to.
EmittedDoc ==
    LET out == sinks[handlers[ev.h].w] IN out[Len(out) - 1].doc

C7_EnabledGatesLogging ==
    ev.op \in PackageFunctions =>
        LET T == handlers[ev.h].level
        IN  /\ Count("Enabled", ev.calls) = 1
            /\ ev.level >= T => /\ Count("outsideCaller", ev.calls) = 1
                                /\ Count("Handle", ev.calls) = 1
            /\ ev.level < T => /\ Count("outsideCaller", ev.calls) = 0
                               /\ Count("Handle", ev.calls) = 0
                               /\ sinks = ev.before

\* A call at exactly the threshold reached Handle, with a line already written.
C7_Witness ==
    /\ ev.op \in PackageFunctions
    /\ ev.level = handlers[ev.h].level
    /\ Count("Handle", ev.calls) = 1
    /\ Len(sinks[Stdout]) = 2

-----------------------------------------------------------------------------
(* Derivation: WithAttrs, WithGroup, and the context Handle builds *)

X == Int64Value(7)
Y == StringValue("s")
D == DurationValue(1500000)
E == ErrorValue("boom")

DeriveLists == {<<Attr(1, X)>>, <<Attr(1, Y)>>, <<Attr(2, E), Attr(2, D)>>}

DeriveRecords == {NewRecord(0, LevelInfo, "msg", 0, as) : as \in {<<>>, <<Attr(1, D)>>}}

NextDerive ==
    \/ NewGCPHandler(Buffer, LevelError)
    \/ \E h \in Live, as \in DeriveLists : WithAttrs(h, as)
    \/ \E h \in Live : WithGroup(h, "g")
    \/ \E h \in Live, r \in DeriveRecords : Handle(h, r, 2)

SpecDerive == InitLogger("info") /\ [][NextDerive]_vars

RECURSIVE Flatten(_)
Flatten(lists) == IF lists = <<>> THEN <<>> ELSE Head(lists) \o Flatten(Tail(lists))

\* C4: derivation is copy-on-derive: no step changes the sink, threshold,
\* preset attributes or group of a handler that exists, and every handler
\* shows exactly the attributes its own chain of WithAttrs calls added (never
\* those a sibling or a descendant added), also below a WithGroup handler,
\* which shares its parent's slice.
C4_CopyOnDerive ==
    /\ [](\A h \in Live : HandlerView(h).attrs = Flatten(lineage[h]))
    /\ [][\A h \in Live : HandlerView(h)' = HandlerView(h)]_vars

\* A WithGroup handler that shares its parent's backing array was derived
\* further with a non-empty WithAttrs.
C4_Witness ==
    /\ ev.op = "WithAttrs"
    /\ ev.attrs # <<>>
    /\ \E g \in Live : /\ g # ev.h
                         /\ handlers[g].attrs.arr = handlers[ev.h].attrs.arr
                         /\ handlers[g].attrs.len > 0

\* The value the context shows for a: the JSON of a's normalized value.
ContextValue(a) == MarshalValue(addAttrToFields(EmptyMap, a)[a.Key]).json

\* as applied in order to an empty map, as key/value pairs: per key, the last
\* attribute that has it.
Applied(as) ==
    {[key |-> as[i].Key, val |-> ContextValue(as[i])] :
        i \in {j \in 1..Len(as) : \A k \in (j + 1)..Len(as) : as[k].Key # as[j].Key}}

\* C5: Handle(R) on a handler made by WithAttrs(A) then WithAttrs(B) emits the
\* context that applying A, then B, then R's attributes to an empty map gives,
\* a later attribute overwriting an earlier one of the same key; the context's
\* keys are unique.
C5_ContextIsPresetThenRecord ==
    (Emitted /\ ev.op = "Handle") =>
        LET c == EmittedDoc.context
        IN  /\ Range(c) = Applied(Flatten(lineage[ev.h]) \o ev.r.Attrs)
            /\ \A i, j \in 1..Len(c) : c[i].key = c[j].key => i = j

\* A, B and R all set key 1, to three different values, and were emitted.
C5_Witness ==
    /\ Emitted
    /\ ev.op = "Handle"
    /\ Len(lineage[ev.h]) = 2
    /\ lineage[ev.h][1] = <<Attr(1, X)>>
    /\ lineage[ev.h][2] = <<Attr(1, Y)>>
    /\ ev.r.Attrs = <<Attr(1, D)>>

-----------------------------------------------------------------------------
(* The extra fields in what Handle emits *)

GoString(t) == [type |-> "string", num |-> 0, str |-> t]
GoInt(i) == [type |-> "int64", num |-> i, str |-> ""]
GoChan == [type |-> "chan", num |-> 0, str |-> ""]

EnvProd == 1 :> GoString("prod")
EnvStaging == 1 :> GoString("staging")
Region == 2 :> GoInt(7)

ExtraMaps == {EnvProd, EnvStaging, Region}

NextExtra ==
    \/ \E m \in ExtraMaps : MergeGlobalExtraFields(m)
    \/ \E h \in Live : WithAttrs(h, <<Attr(2, X)>>)
    \/ NewGCPHandler(Buffer, LevelDebug)
    \/ \E h \in Live : Handle(h, NewRecord(0, LevelInfo, "msg", 0, <<>>), 2)

SpecExtra == InitLogger("info") /\ [][NextExtra]_vars

\* The keys some merge so far has set.
MergedKeys == UNION {DOMAIN merged[i] : i \in 1..Len(merged)}

\* The value the last merge that has key k gave it.
LastMerged(k) ==
    LET i == CHOOSE j \in 1..Len(merged) :
                 /\ k \in DOMAIN merged[j]
                 /\ \A l \in (j + 1)..Len(merged) : k \notin DOMAIN merged[l]
    IN  merged[i][k]

\* C3: whatever was merged so far, a Handle call on any handler (also one made
\* or derived before the merges) emits as "extra" the union of the merged
\* maps, a later merge overwriting an earlier one's keys.
C3_ExtraIsUnionOfMerges ==
    Emitted =>
        Range(EmittedDoc.extra) =
            {[key |-> k, val |-> MarshalValue(LastMerged(k)).json] : k \in MergedKeys}

\* env=prod, then env=staging, then a line from the handler NewLogger made
\* before either merge.
C3_Witness ==
    /\ Emitted
    /\ merged = <<EnvProd, EnvStaging>>
    /\ ev.h = 1
    /\ EmittedDoc.extra = <<[key |-> 1, val |-> [t |-> "string", num |-> 0, str |-> "staging"]]>>

-----------------------------------------------------------------------------
(* Failures of Handle *)

FailRecords ==
    {NewRecord(0, LevelWarn, "msg", 0, as) :
        as \in {<<>>, <<Attr(1, ChanValue)>>, <<Attr(1, ChanValue), Attr(1, X)>>}}

NextFail ==
    \/ \E m \in {EnvProd, 2 :> GoChan} : MergeGlobalExtraFields(m)
    \/ \E h \in Live, r \in FailRecords, n \in 0..2 : Handle(h, r, n)

SpecFail == InitLogger("info") /\ [][NextFail]_vars

\* json.Marshal cannot encode the document of the last Handle call: a value
\* of an unsupported type is left in its context or in the extra fields.
SerializationFails ==
    \/ \E k \in DOMAIN globalExtraFields : globalExtraFields[k].type = "chan"
    \/ LET as == Flatten(lineage[ev.h]) \o ev.r.Attrs
       IN  \E i \in 1..Len(as) :
               /\ as[i].Value = ChanValue
               /\ \A j \in (i + 1)..Len(as) : as[j].Key # as[i].Key

\* C8: Handle returns an error iff serialization fails or the sink's write
\* fails; it attempts at most one write per record; when serialization fails
\* it attempts none and the sinks are left as they were.
C8_FailureDropsRecord ==
    ev.op = "Handle" =>
        /\ ev.err <=> (SerializationFails \/ ev.n < Len(Line(0)))
        /\ Count("Write", ev.calls) <= 1
        /\ SerializationFails => Count("Write", ev.calls) = 0 /\ sinks = ev.before
        /\ ~SerializationFails => Count("Write", ev.calls) = 1

\* The sink took part of the line and failed: Handle returned the error after
\* its one write.
C8_Witness ==
    /\ ev.op = "Handle"
    /\ ~SerializationFails
    /\ ev.n = 1
    /\ ev.err
    /\ Count("Write", ev.calls) = 1
    /\ globalExtraFields = EnvProd

-----------------------------------------------------------------------------
(* addAttrToFields on durations *)

\* Whole and half milliseconds from -MaxMs to MaxMs, and the nanosecond on
\* either side of each.
Durations ==
    {h * (NanosPerMilli \div 2) + o : h \in (-2 * MaxMs)..(2 * MaxMs), o \in {-1, 0, 1}}

AttrValues == {DurationValue(ns) : ns \in Durations} \cup {X, Y, E}

AddAttr(k, v) ==
    /\ fields' = addAttrToFields(fields, Attr(k, v))
    /\ ev' = [op |-> "addAttrToFields", attr |-> Attr(k, v)]
    /\ UNCHANGED <<handlers, arrays, lineage, globalExtraFields, merged, logger,
                   sourceLevels, sinks, pc, loc, crashed, stack>>

NextAttr == \E k \in Keys, v \in AttrValues : AddAttr(k, v)

SpecAttr == InitLogger("info") /\ [][NextAttr]_vars

Abs(i) == IF i < 0 THEN -i ELSE i

\* C9: a duration attribute of N nanoseconds, whatever its key and sign, is
\* stored (and so emitted) as the integer number of whole milliseconds in N,
\* the fraction cut off: 1,500,000 ns gives 1, -1,500,000 ns gives -1.
C9_DurationIsWholeMilliseconds ==
    (ev.op = "addAttrToFields" /\ ev.attr.Value.kind = "Duration") =>
        LET N == ev.attr.Value.num
            out == fields[ev.attr.Key]
        IN  /\ out.type = "int64"
            /\ Abs(out.num) * 1000000 <= Abs(N)
            /\ Abs(N) < (Abs(out.num) + 1) * 1000000
            /\ out.num # 0 => (out.num > 0 <=> N > 0)
            /\ MarshalValue(out) = [err |-> FALSE,
                                    json |-> [t |-> "number", num |-> out.num, str |-> ""]]

\* -1,500,000 ns under key 2 was stored as -1.
C9_Witness ==
    /\ ev.op = "addAttrToFields"
    /\ ev.attr = Attr(2, DurationValue(-1500000))
    /\ fields[2].num = -1

-----------------------------------------------------------------------------
(* outsideCaller on stacks of any depth *)

RECURSIVE Layers(_)
Layers(k) == IF k = 0 THEN <<>> ELSE Append(Layers(k - 1), Facade("wrap"))

\* What is below the facade: the application's frames, which may hold a
\* vendored copy of the facade or call back into it.
BelowFacade ==
    {<<>>, <<App("main")>>, <<App("run"), App("main")>>,
     <<Vendored("Helper"), App("main")>>, <<App("each"), Facade("Each"), App("main")>>}

\* outsideCaller's stack: Callers, outsideCaller, log, k more facade frames,
\* the application, and the goroutine's first frame.
ResolverStacks ==
    {Number(<<<<"runtime.", "Callers">>, Facade("outsideCaller"), Facade("log")>>
            \o Layers(k) \o app \o <<Goexit>>) :
        k \in 0..MaxLayers, app \in BelowFacade}

Enter(stk) ==
    /\ stack' = stk
    /\ ev' = [op |-> "call"]
    /\ UNCHANGED <<handlers, arrays, lineage, globalExtraFields, merged, logger,
                   sourceLevels, sinks, pc, loc, crashed, fields>>

Resolve ==
    /\ ev.op = "call"
    /\ ev' = [op |-> "outsideCaller", pc |-> outsideCaller(stack)]
    /\ UNCHANGED <<handlers, arrays, lineage, globalExtraFields, merged, logger,
                   sourceLevels, sinks, pc, loc, crashed, stack, fields>>

NextResolver ==
    \/ \E stk \in ResolverStacks : Enter(stk)
    \/ Resolve

InitResolver ==
    /\ InitState("info")
    /\ stack \in ResolverStacks
    /\ ev = [op |-> "call"]
    /\ pc = [p \in Procs |-> "idle"]
    /\ loc = [p \in Procs |-> [calls |-> 0]]
    /\ fields = EmptyMap

SpecResolver == InitResolver /\ [][NextResolver]_vars

\* The places in the stack of the frames outsideCaller captures: at most 16,
\* from its caller (the third frame: Callers and outsideCaller come first) on.
Captured == {i \in 3..Len(stack) : i <= 2 + 16}

\* The captured frames whose function name does not contain the prefix.
Outside ==
    {i \in Captured :
        \A j \in 1..Len(stack[i].Function) : stack[i].Function[j] # "github.com/twopow/glog."}

\* C10: outsideCaller returns the PC of the innermost captured frame whose
\* function name does not contain the prefix, and 0 when every captured frame
\* contains it; so with any number of facade frames that fits in the 16
\* captured, the result is the application's frame, never a facade frame.
C10_FirstFrameOutsideFacade ==
    ev.op = "outsideCaller" =>
        /\ Outside = {} => ev.pc = 0
        /\ Outside # {} => ev.pc = stack[Min(Outside)].PC /\ ev.pc # 0
        /\ \A k \in 0..14 :
               (/\ Len(stack) >= 4 + k
                /\ \A i \in 3..(3 + k) : HasPrefix(stack[i].Function, pkgPrefix)
                /\ stack[4 + k].Function \in {App("main"), App("run")})
               => ev.pc = stack[4 + k].PC

\* The application's frame is the last of the 16 captured.
C10_Witness ==
    /\ ev.op = "outsideCaller"
    /\ Len(stack) > 18
    /\ stack[18].Function = App("run")
    /\ ev.pc = 18

-----------------------------------------------------------------------------
(* Goroutines: Handle and MergeGlobalExtraFields step by step *)

\* No goroutine takes a lock anywhere in Handle or MergeGlobalExtraFields, so
\* every step below is enabled whatever the other goroutines are doing.

Idle(p) == ~crashed /\ pc[p] = "idle"

\* Handle, up to the call of json.Marshal: the entry holds the context map (a
\* local) and a reference to the shared extra-fields map.
HandleBegin(p, h) ==
    /\ Idle(p)
    /\ loc[p].calls < MaxCalls
    /\ pc' = [pc EXCEPT ![p] = "marshal"]
    /\ loc' = [loc EXCEPT ![p] =
                  [calls |-> loc[p].calls + 1, h |-> h,
                   r |-> NewRecord(0, LevelInfo, <<p, loc[p].calls + 1>>, 0, <<>>),
                   todo |-> Keys, seen |-> EmptyMap]]
    /\ UNCHANGED <<handlers, arrays, lineage, globalExtraFields, merged, logger,
                   sourceLevels, sinks, ev, crashed, stack, fields>>

\* json.Marshal ranges over the shared map: one key slot per step, in any
\* order. After the last one the document is complete and Handle goes on to
\* h.w.Write.
MarshalRead(p, k) ==
    /\ ~crashed
    /\ pc[p] = "marshal"
    /\ k \in loc[p].todo
    /\ LET seen == IF k \in DOMAIN globalExtraFields
                   THEN Put(loc[p].seen, k, globalExtraFields[k])
                   ELSE loc[p].seen
           m == Marshal(Entry(loc[p].h, loc[p].r, seen))
       IN  IF loc[p].todo = {k}
           THEN /\ pc' = [pc EXCEPT ![p] = "write"]
                /\ loc' = [loc EXCEPT ![p] =
                              [calls |-> loc[p].calls, h |-> loc[p].h, r |-> loc[p].r,
                               b |-> Line(m.doc)]]
           ELSE /\ pc' = pc
                /\ loc' = [loc EXCEPT ![p].todo = @ \ {k}, ![p].seen = seen]
    /\ UNCHANGED <<handlers, arrays, lineage, globalExtraFields, merged, logger,
                   sourceLevels, sinks, ev, crashed, stack, fields>>

Returned(p) == [msg |-> loc[p].r.Message, w |-> handlers[loc[p].h].w]

\* h.w.Write(b) on os.Stdout: an *os.File serializes its writers itself.
WriteFile(p) ==
    /\ ~crashed
    /\ pc[p] = "write"
    /\ handlers[loc[p].h].w = Stdout
    /\ sinks' = [sinks EXCEPT ![Stdout] = @ \o loc[p].b]
    /\ ev' = [op |-> "go", handled |-> ev.handled \cup {Returned(p)}]
    /\ pc' = [pc EXCEPT ![p] = "idle"]
    /\ loc' = [loc EXCEPT ![p] = [calls |-> loc[p].calls]]
    /\ UNCHANGED <<handlers, arrays, lineage, globalExtraFields, merged, logger,
                   sourceLevels, crashed, stack, fields>>

\* h.w.Write(b) on a writer that does not lock (a bytes.Buffer): it reads
\* the length of what it holds ...
WriteReserve(p) ==
    /\ ~crashed
    /\ pc[p] = "write"
    /\ handlers[loc[p].h].w = Buffer
    /\ pc' = [pc EXCEPT ![p] = "copy"]
    /\ loc' = [loc EXCEPT ![p] =
                  [calls |-> loc[p].calls, h |-> loc[p].h, r |-> loc[p].r,
                   b |-> loc[p].b, m |-> Len(sinks[Buffer])]]
    /\ UNCHANGED <<handlers, arrays, lineage, globalExtraFields, merged, logger,
                   sourceLevels, sinks, ev, crashed, stack, fields>>

Stale == [tok |-> "stale"]

\* ... and then sets the length to that plus len(b) and copies b there.
WriteCopy(p) ==
    /\ ~crashed
    /\ pc[p] = "copy"
    /\ LET cur == sinks[Buffer]
           kept == [i \in 1..loc[p].m |-> IF i <= Len(cur) THEN cur[i] ELSE Stale]
       IN  sinks' = [sinks EXCEPT ![Buffer] = kept \o loc[p].b]
    /\ ev' = [op |-> "go", handled |-> ev.handled \cup {Returned(p)}]
    /\ pc' = [pc EXCEPT ![p] = "idle"]
    /\ loc' = [loc EXCEPT ![p] = [calls |-> loc[p].calls]]
    /\ UNCHANGED <<handlers, arrays, lineage, globalExtraFields, merged, logger,
                   sourceLevels, crashed, stack, fields>>

\* MergeGlobalExtraFields, entered: the range loop has not yet written.
MergeBegin(p, extraFields) ==
    /\ Idle(p)
    /\ loc[p].calls < MaxCalls
    /\ pc' = [pc EXCEPT ![p] = "merge"]
    /\ loc' = [loc EXCEPT ![p] =
                  [calls |-> loc[p].calls + 1, extraFields |-> extraFields,
                   todo |-> DOMAIN extraFields]]
    /\ UNCHANGED <<handlers, arrays, lineage, globalExtraFields, merged, logger,
                   sourceLevels, sinks, ev, crashed, stack, fields>>

\* One iteration of the range loop: globalExtraFields[key] = value. After the
\* last one the call returns.
MergeWrite(p, k) ==
    /\ ~crashed
    /\ pc[p] = "merge"
    /\ k \in loc[p].todo
    /\ globalExtraFields' = Put(globalExtraFields, k, loc[p].extraFields[k])
    /\ IF loc[p].todo = {k}
       THEN /\ pc' = [pc EXCEPT ![p] = "idle"]
            /\ loc' = [loc EXCEPT ![p] = [calls |-> loc[p].calls]]
       ELSE /\ pc' = pc
            /\ loc' = [loc EXCEPT ![p].todo = @ \ {k}]
    /\ UNCHANGED <<handlers, arrays, lineage, merged, logger, sourceLevels, sinks, ev,
                   crashed, stack, fields>>

\* A Merge call that has written some of its keys and not yet all of them.
MidMerge(p) ==
    /\ pc[p] = "merge"
    /\ loc[p].todo # {}
    /\ loc[p].todo # DOMAIN loc[p].extraFields

\* A Handle call whose json.Marshal is ranging over the shared map.
Serializing(p) == pc[p] = "marshal"

\* The Go runtime may notice a map written while another goroutine reads or
\* writes it, and then it ends the process ("fatal error: concurrent map ...").
Fatal ==
    /\ ~crashed
    /\ \E p, q \in Procs :
          p # q /\ pc[p] = "merge" /\ pc[q] \in {"merge", "marshal"}
    /\ crashed' = TRUE
    /\ UNCHANGED <<handlers, arrays, lineage, globalExtraFields, merged, logger,
                   sourceLevels, sinks, ev, pc, loc, stack, fields>>

RegionAndEnv == (1 :> GoString("staging")) @@ (2 :> GoInt(7))

NextConc ==
    \/ \E p \in Procs, h \in Live : HandleBegin(p, h)
    \/ \E p \in Procs, k \in Keys : MarshalRead(p, k)
    \/ \E p \in Procs : WriteFile(p)
    \/ \E p \in Procs : WriteReserve(p)
    \/ \E p \in Procs : WriteCopy(p)
    \/ \E p \in Procs, m \in {EnvProd, RegionAndEnv} : MergeBegin(p, m)
    \/ \E p \in Procs, k \in Keys : MergeWrite(p, k)
    \/ Fatal

\* NewLogger("info") and NewGCPHandler(buffer, LevelInfo) have returned; the
\* goroutines have not started.
InitConc ==
    /\ handlers = <<[w |-> Stdout, level |-> LevelInfo,
                     attrs |-> [arr |-> 1, len |-> 0], group |-> ""],
                    [w |-> Buffer, level |-> LevelInfo,
                     attrs |-> [arr |-> 2, len |-> 0], group |-> ""]>>
    /\ arrays = << <<>>, <<>> >>
    /\ lineage = << <<>>, <<>> >>
    /\ globalExtraFields = EmptyMap
    /\ merged = <<>>
    /\ logger = 1
    /\ sourceLevels = <<LevelDebug>>
    /\ sinks = [w \in Sinks |-> <<>>]
    /\ crashed = FALSE
    /\ ev = [op |-> "go", handled |-> {}]
    /\ pc = [p \in Procs |-> "idle"]
    /\ loc = [p \in Procs |-> [calls |-> 0]]
    /\ stack = <<>>
    /\ fields = EmptyMap

SpecConc == InitConc /\ [][NextConc]_vars

\* The sink holds whole lines only: a JSON document, then its newline.
WholeLines(out) ==
    /\ Len(out) % 2 = 0
    /\ \A i \in 1..Len(out) : out[i].tok = (IF i % 2 = 1 THEN "json" ELSE "newline")

\* The lines in the sink that hold the document of the call with message msg.
LinesOf(out, msg) ==
    {i \in 1..Len(out) : out[i].tok = "json" /\ out[i].doc.message = msg}

\* C1: whenever no Handle call is under way, every sink holds whole lines
\* only, exactly one for each Handle call that has returned, and as many
\* lines as calls.
C1_OneWholeLinePerCall ==
    (~crashed /\ \A p \in Procs : pc[p] \notin {"marshal", "write", "copy"}) =>
        \A w \in Sinks :
            LET calls == {c \in ev.handled : c.w = w}
            IN  /\ WholeLines(sinks[w])
                /\ \A c \in calls : Cardinality(LinesOf(sinks[w], c.msg)) = 1
                /\ Len(sinks[w]) = 2 * Cardinality(calls)

\* C2: no Handle call serializes the extra fields while a Merge call is part
\* way through writing them, and no two Merge calls are writing them at once.
C2_ExtraFieldsGuarded ==
    \A p, q \in Procs :
        p # q => /\ ~(MidMerge(p) /\ Serializing(q))
                 /\ ~(MidMerge(p) /\ pc[q] = "merge")

====
